---- MODULE Spec2Model ----
(***************************************************************************)
(* Model of src/src/dxf2price.ts: the Entity Normalizer (findEdges), the   *)
(* Polyline Decurver (transofrmEntity), the Contour Stitcher (findShapes), *)
(* and getFileData's Measurer, findMainShape and findBounds.               *)
(*                                                                         *)
(* Numbers.  Coordinates, radii and lengths are integers in units of       *)
(* 1/LenUnit of a drawing unit, so that EQUAL_TRESHOLD (0.01) is the       *)
(* integer 4 and points 0.005 apart or exactly 0.01 apart can be written.  *)
(* Angles are integers in quarter turns (1 = PI/2), the angles at which    *)
(* Math.cos and Math.sin are -1, 0 or 1.  A length or an area with a       *)
(* circular part is the record [rat, qpi] standing for rat + qpi * PI/2.   *)
(*                                                                         *)
(* Indices.  The code's arrays are 0-based, the sequences here 1-based:    *)
(* edges[0] of the code is edges[1] here, shapes[0] is shapes[1].          *)
(***************************************************************************)
EXTENDS Integers, Sequences, FiniteSets, TLC

VARIABLES
    pc,               \* position in getFileData / findShapes
    file,             \* what the parser makes of the file's content
    data,             \* data.entities, each entity tagged with its index (id)
    pool,             \* findShapes: the local array `entities`
    unknownEntities,  \* findShapes: the tally, a function type -> count
    shape,            \* findShapes: the shape under construction
    shapes,           \* findShapes: the emitted shapes (findShapesResult.shapes)
    index,            \* findShapes: the for-in cursor of the scan (1-based)
    nextNotFound,     \* findShapes: the flag of the same name
    fileData,         \* getFileData: the result struct
    mi,               \* getFileData: the filter's index into shapes (1-based)
    survivors,        \* getFileData: the local `shapes` from line 436 on
    mainShapeIndex,   \* findMainShape: the variable of the same name (0-based)
    si,               \* findMainShape: the selection loop's i (0-based)
    mainShape,        \* findMainShape / getFileData: <<>> while undefined
    vi,               \* findMainShape: the forEach index (0-based)
    started,          \* findMainShape: the variable of the same name
    now,              \* the wall clock, in ms
    readings,         \* the elapsed times the containment loop has read
    kernelPolygon,    \* the kernel's answers on building and measuring shapes
    kernelContains,   \* the kernel's answers to Polygon.contains
    run,              \* which call of getFileData on this file this is
    firstRun          \* what the first call returned, <<>> before it has

stitchVars == <<data, pool, unknownEntities, shape, shapes, index, nextNotFound>>

fileVars == <<fileData, mi, survivors, mainShapeIndex, si, mainShape, vi,
              started, now, readings, kernelPolygon, kernelContains>>

vars == <<pc, file, stitchVars, fileVars, run, firstRun>>

----------------------------------------------------------------------------
(* Bounds of the model *)

\* longest entity list drawn from Templates
MaxEntities == 3

\* longest entity list drawn from FileTemplates
MaxFileEntities == 3

\* longest entity list drawn from FileTemplates for two calls in a row
MaxTwiceEntities == 2

\* longest entity list drawn from FairTemplates
MaxFairEntities == 3

----------------------------------------------------------------------------
(* Numbers *)

EQUAL_TRESHOLD == 4

\* one drawing unit: EQUAL_TRESHOLD is 0.01 of it
LenUnit == 100 * EQUAL_TRESHOLD

Abs(n) == IF n < 0 THEN -n ELSE n

Min(a, b) == IF a < b THEN a ELSE b

Max(a, b) == IF a < b THEN b ELSE a

RECURSIVE SqrtBetween(_, _, _)
\* the largest r in lo..hi with r*r <= n (hi*hi > n, lo*lo <= n)
SqrtBetween(n, lo, hi) ==
    IF hi - lo <= 1 THEN lo
    ELSE LET mid == (lo + hi) \div 2
         IN  IF mid * mid <= n THEN SqrtBetween(n, mid, hi)
             ELSE SqrtBetween(n, lo, mid)

\* Math.sqrt, exact on the perfect squares (every line of the inputs is
\* axis-parallel, so every square root taken is one); 46340 is the largest
\* root whose square is a 32-bit integer
Sqrt(n) == SqrtBetween(n, 0, Min(n + 1, 46340))

\* Math.cos and Math.sin at k quarter turns
Cos4(k) == CASE k % 4 = 0 -> 1 [] k % 4 = 1 -> 0 [] k % 4 = 2 -> -1 [] k % 4 = 3 -> 0

Sin4(k) == CASE k % 4 = 0 -> 0 [] k % 4 = 1 -> 1 [] k % 4 = 2 -> 0 [] k % 4 = 3 -> -1

Sign(n) == IF n > 0 THEN 1 ELSE IF n < 0 THEN -1 ELSE 0

\* a length or area rat + qpi * PI/2
Num(rat, qpi) == [rat |-> rat, qpi |-> qpi]

Plus(a, b) == Num(a.rat + b.rat, a.qpi + b.qpi)

----------------------------------------------------------------------------
(* Vertices and entities *)

Vertice(x, y, bulge) == [x |-> x, y |-> y, bulge |-> bulge]

Pt(x, y) == Vertice(x, y, 0)

NoPoint == Pt(0, 0)

\* An entity object.  edges = <<>> is `edges` undefined.  id is the object's
\* identity (its index in data.entities); a sub-primitive made by
\* transofrmEntity has id 0 and polyline = the id of the polyline it is
\* cut from.
Entity(type, vertices, center, radius, startAngle, endAngle, closedFlag) ==
    [type |-> type, vertices |-> vertices, center |-> center, radius |-> radius,
     startAngle |-> startAngle, endAngle |-> endAngle, edges |-> <<>>,
     reverse |-> FALSE, shape |-> closedFlag, clockwise |-> FALSE,
     polyline |-> 0, id |-> 0]

LineOf(p, q) == Entity("LINE", <<p, q>>, NoPoint, 0, 0, 0, FALSE)

CircleOf(c, r) == Entity("CIRCLE", <<>>, c, r, 0, 0, FALSE)

ArcOf(c, r, sa, ea) == Entity("ARC", <<>>, c, r, sa, ea, FALSE)

PolylineOf(vs, closedFlag) == Entity("LWPOLYLINE", vs, NoPoint, 0, 0, 0, closedFlag)

OtherOf(type) == Entity(type, <<>>, NoPoint, 0, 0, 0, FALSE)

lineLength(p1, p2) ==
    Sqrt((p1.x - p2.x) * (p1.x - p2.x) + (p1.y - p2.y) * (p1.y - p2.y))

getArcPoint(center, radius, angle) ==
    Pt(Cos4(angle) * radius + center.x, Sin4(angle) * radius + center.y)

\* the body of findEdges' forEach, for one entity
findEdgesOf(entity) ==
    CASE entity.type = "ARC" ->
           [entity EXCEPT !.edges =
               <<getArcPoint(entity.center, entity.radius, entity.startAngle),
                 getArcPoint(entity.center, entity.radius, entity.endAngle)>>]
      [] entity.type = "LINE" ->
           [entity EXCEPT !.edges = entity.vertices]
      [] entity.type = "LWPOLYLINE" ->
           LET vs == entity.vertices
               closing == entity.shape \/ vs[Len(vs)].bulge # 0
               vs2 == IF closing THEN Append(vs, vs[1]) ELSE vs
           IN  [entity EXCEPT !.vertices = vs2,
                              !.edges = <<vs[1], vs2[Len(vs2)]>>]
      [] entity.type = "CIRCLE" ->
           LET p == Pt(entity.center.x + entity.radius, entity.center.y)
           IN  [entity EXCEPT !.edges = <<p, p>>]
      [] OTHER -> entity

findEdges(entities) == [i \in 1..Len(entities) |-> findEdgesOf(entities[i])]

\* pointsAreEqual with the comparison delta <= EQUAL_TRESHOLD
pointsAreEqualInclusive(p1, p2) ==
    LET delta == Abs(p1.x - p2.x) + Abs(p1.y - p2.y)
    IN  delta <= EQUAL_TRESHOLD

pointsAreEqual(p1, p2) ==
    LET delta == Abs(p1.x - p2.x) + Abs(p1.y - p2.y)
    IN  delta < EQUAL_TRESHOLD

\* swapEdges that marks the entity reversed and leaves the edges as they are
swapEdgesKeepOrder(entity) == [entity EXCEPT !.reverse = TRUE]

\* A LINE read from the file has edges === vertices (one array), so the swap
\* shows in both; everywhere else edges is an array of its own.
swapEdges(entity) ==
    LET swapped == <<entity.edges[2], entity.edges[1]>>
    IN  [entity EXCEPT !.edges = swapped,
                       !.reverse = TRUE,
                       !.vertices = IF entity.type = "LINE" /\ entity.polyline = 0
                                    THEN swapped ELSE @]

\* Math.acos((p2.x - p1.x) / |p1 p2|), mirrored when p2 is below p1, in
\* quarter turns; defined for the axis-parallel directions
vectorAngle(p1, p2) ==
    CASE p2.y = p1.y /\ p2.x > p1.x -> 0
      [] p2.x = p1.x /\ p2.y > p1.y -> 1
      [] p2.y = p1.y /\ p2.x < p1.x -> 2
      [] p2.x = p1.x /\ p2.y < p1.y -> 3

cloneVertice(v) == Vertice(v.x, v.y, v.bulge)

\* the sub-primitive transofrmEntity makes of the vertex pair (index, index+1);
\* the arc is computed for the bulges +1 and -1 (a half circle:
\* aGamma = PI/2 - 2*atan(1) = 0, so the centre is the chord's midpoint)
SubEntity(entity, i) ==
    LET vertice == cloneVertice(entity.vertices[i])
        nextVertice == cloneVertice(entity.vertices[i + 1])
    IN  IF vertice.bulge = 0
        THEN [LineOf(vertice, nextVertice) EXCEPT
                 !.edges = <<vertice, nextVertice>>, !.polyline = entity.id]
        ELSE LET halfSegment == lineLength(vertice, nextVertice) \div 2
                 radius == halfSegment
                 halfSegmentVertice == Pt((vertice.x + nextVertice.x) \div 2,
                                          (vertice.y + nextVertice.y) \div 2)
                 aBeta == vectorAngle(vertice, halfSegmentVertice)
                 centerAngle == aBeta
                 center == Pt(vertice.x + radius * Cos4(centerAngle),
                              vertice.y + radius * Sin4(centerAngle))
             IN  [ArcOf(center, radius, vectorAngle(center, vertice),
                        vectorAngle(center, nextVertice)) EXCEPT
                     !.edges = <<vertice, nextVertice>>,
                     !.clockwise = (Sign(vertice.bulge) = -1),
                     !.polyline = entity.id]

Reverse(s) == [i \in 1..Len(s) |-> s[Len(s) + 1 - i]]

\* transofrmEntity that reverses the order of the sub-primitives of a flipped
\* polyline without swapping the edges of each
transofrmEntityNoSwap(entity) ==
    IF entity.type # "LWPOLYLINE" THEN <<entity>>
    ELSE LET entities == [i \in 1..(Len(entity.vertices) - 1) |-> SubEntity(entity, i)]
         IN  IF entity.reverse THEN Reverse(entities) ELSE entities

\* transofrmEntity that passes over the last pair of vertices
transofrmEntityShort(entity) ==
    IF entity.type # "LWPOLYLINE" THEN <<entity>>
    ELSE LET entities == [i \in 1..(Len(entity.vertices) - 2) |-> SubEntity(entity, i)]
         IN  IF entity.reverse
             THEN LET r == Reverse(entities)
                  IN  [i \in 1..Len(r) |-> swapEdges(r[i])]
             ELSE entities

transofrmEntity(entity) ==
    IF entity.type # "LWPOLYLINE" THEN <<entity>>
    ELSE LET entities == [i \in 1..(Len(entity.vertices) - 1) |-> SubEntity(entity, i)]
         IN  IF entity.reverse
             THEN LET r == Reverse(entities)
                  IN  [i \in 1..Len(r) |-> swapEdges(r[i])]
             ELSE entities

----------------------------------------------------------------------------
(* Shapes *)

\* A Shape object.  polygon, area and perimeter are <<>> while undefined and
\* a one-element sequence once assigned.
Shape(entities, start, end, closed, single) ==
    [entities |-> entities, start |-> start, end |-> end, closed |-> closed,
     single |-> single, polygon |-> <<>>, area |-> <<>>, perimeter |-> <<>>,
     skippedIncludesCheck |-> FALSE]

\* no shape under construction
NoShape == Shape(<<>>, NoPoint, NoPoint, FALSE, FALSE)

----------------------------------------------------------------------------
(* Measures of a shape *)

\* calcEntityLength; the default branch (throw) is the empty sequence
calcEntityLength(entity) ==
    CASE entity.type = "ARC" ->
           LET a1 == entity.endAngle - entity.startAngle
               a2 == IF a1 < 0 THEN 4 + a1 ELSE a1
               a3 == IF entity.clockwise THEN 4 - a2 ELSE a2
           IN  <<Num(0, a3 * entity.radius)>>
      [] entity.type = "LINE" ->
           <<Num(lineLength(entity.edges[1], entity.edges[2]), 0)>>
      [] entity.type = "CIRCLE" ->
           <<Num(0, 4 * entity.radius)>>
      [] OTHER -> <<>>

RECURSIVE PerimeterFrom(_, _, _)
\* shape.entities.reduce((acc, val) => acc + calcEntityLength(val), 0):
\* <<the sum>>, or <<>> when calcEntityLength throws
PerimeterFrom(entities, i, acc) ==
    IF i > Len(entities) THEN <<acc>>
    ELSE LET l == calcEntityLength(entities[i])
         IN  IF l = <<>> THEN <<>>
             ELSE PerimeterFrom(entities, i + 1, Plus(acc, l[1]))

calcPerimeter(sh) == PerimeterFrom(sh.entities, 1, Num(0, 0))

RECURSIVE MinY(_, _, _)
\* the least y of the faces' end points: the face's box.ymin
MinY(entities, i, m) ==
    IF i > Len(entities) THEN m
    ELSE MinY(entities, i + 1,
              Min(m, Min(entities[i].edges[1].y, entities[i].edges[2].y)))

RECURSIVE IntegralFrom(_, _, _)
\* twice the sum of the segments' definite integrals above ymin
IntegralFrom(entities, i, ymin) ==
    IF i > Len(entities) THEN 0
    ELSE LET ps == entities[i].edges[1]
             pe == entities[i].edges[2]
         IN  (pe.x - ps.x) * ((ps.y - ymin) + (pe.y - ymin))
               + IntegralFrom(entities, i + 1, ymin)

\* The kernel's Polygon.area() of the polygon createPolygon builds: for a face
\* of Segments the absolute value of the summed definite integrals, for the
\* full-circle arc of a CIRCLE the disc's area.  Not defined for other faces.
polygonArea(entities) ==
    CASE \A i \in 1..Len(entities) : entities[i].type = "LINE" ->
           Num(Abs(IntegralFrom(entities, 1, MinY(entities, 1, entities[1].edges[1].y))) \div 2, 0)
      [] Len(entities) = 1 /\ entities[1].type = "CIRCLE" ->
           Num(0, 2 * entities[1].radius * entities[1].radius)

----------------------------------------------------------------------------
(* findShapes *)

\* the tally step without the increment: unknownEntities[type] = 1
CountOneReset(tally, type) ==
    [t \in (DOMAIN tally) \cup {type} |-> IF t = type THEN 1 ELSE tally[t]]

\* unknownEntities[type] = (entitiesCount || 0) + 1
CountOne(tally, type) ==
    [t \in (DOMAIN tally) \cup {type} |->
        IF t = type
        THEN (IF type \in DOMAIN tally THEN tally[type] ELSE 0) + 1
        ELSE tally[t]]

RECURSIVE TallyFrom(_, _, _)
\* the tally the filter callback leaves after entities[i..]
TallyFrom(entities, i, tally) ==
    IF i > Len(entities) THEN tally
    ELSE TallyFrom(entities, i + 1,
                   IF entities[i].edges = <<>>
                   THEN CountOne(tally, entities[i].type)
                   ELSE tally)

\* data.entities.slice().filter(...): the entities that have edges, in order
FilterEdges(entities) == SelectSeq(entities, LAMBDA e : e.edges # <<>>)

\* the chain without its last test, edges[1] equals end
MatchCaseThreeTests(entity, sh) ==
    IF pointsAreEqual(entity.edges[1], sh.start) THEN 1
    ELSE IF pointsAreEqual(entity.edges[1], sh.end) THEN 2
    ELSE IF pointsAreEqual(entity.edges[2], sh.start) THEN 3
    ELSE 0

\* the chain with both edges[1] tests before the edges[0]-equals-end test
MatchCaseStartFirst(entity, sh) ==
    IF pointsAreEqual(entity.edges[1], sh.start) THEN 1
    ELSE IF pointsAreEqual(entity.edges[2], sh.start) THEN 3
    ELSE IF pointsAreEqual(entity.edges[1], sh.end) THEN 2
    ELSE IF pointsAreEqual(entity.edges[2], sh.end) THEN 4
    ELSE 0

\* which branch of the if / else-if chain of the scan takes the entity:
\* 1..4 in the order of the code, 0 when none does
MatchCase(entity, sh) ==
    IF pointsAreEqual(entity.edges[1], sh.start) THEN 1
    ELSE IF pointsAreEqual(entity.edges[1], sh.end) THEN 2
    ELSE IF pointsAreEqual(entity.edges[2], sh.start) THEN 3
    ELSE IF pointsAreEqual(entity.edges[2], sh.end) THEN 4
    ELSE 0

\* the body of branch c: the shape after the entity is attached
AttachCase(sh, entity, c) ==
    CASE c = 1 ->
           LET e == swapEdges(entity)
           IN  [sh EXCEPT !.entities = transofrmEntity(e) \o @, !.start = e.edges[1]]
      [] c = 2 ->
           [sh EXCEPT !.entities = @ \o transofrmEntity(entity), !.end = entity.edges[2]]
      [] c = 3 ->
           [sh EXCEPT !.entities = transofrmEntity(entity) \o @, !.start = entity.edges[1]]
      [] c = 4 ->
           LET e == swapEdges(entity)
           IN  [sh EXCEPT !.entities = @ \o transofrmEntity(e), !.end = e.edges[2]]

\* a splice that removes nothing
SpliceNone(s, i) == s

\* a splice that removes the first element whatever the index
SpliceFirst(s, i) == Tail(s)

\* entities.splice(+index, 1)
Splice(s, i) == [j \in 1..(Len(s) - 1) |-> IF j < i THEN s[j] ELSE s[j + 1]]

\* the cursor a scan starts with
ScanStart == 1

\* the shape a seed makes, before the closure test
SeedShape(startEntity) ==
    Shape(transofrmEntity(startEntity), startEntity.edges[1], startEntity.edges[2],
          startEntity.type = "CIRCLE", startEntity.type = "CIRCLE")

\* readDxf returned null: the parser threw on the file's content (lines 41-43)
DataIsNull == ~file.parsed

FindEdges ==
    /\ pc = "findEdges"
    /\ ~DataIsNull
    /\ data' = findEdges(data)
    /\ pc' = "filter"
    /\ UNCHANGED <<file, pool, unknownEntities, shape, shapes, index, nextNotFound>>
    /\ UNCHANGED <<fileVars, run, firstRun>>

\* findEdges(null): reading data.entities throws a TypeError, which nothing
\* in getFileData catches (line 422 is outside every try)
FindEdgesThrows ==
    /\ pc = "findEdges"
    /\ DataIsNull
    /\ pc' = "thrown"
    /\ UNCHANGED <<file, stitchVars, fileVars, run, firstRun>>

Filter ==
    /\ pc = "filter"
    /\ pool' = FilterEdges(data)
    /\ unknownEntities' = TallyFrom(data, 1, [t \in {} |-> 0])
    /\ shapes' = <<>>
    /\ pc' = "while"
    /\ UNCHANGED <<file, data, shape, index, nextNotFound, fileVars, run, firstRun>>

\* one turn of `while (entities.length)` up to the inner while
Seed ==
    /\ pc = "while"
    /\ pool # <<>>
    /\ LET startEntity == Head(pool)
           sh == SeedShape(startEntity)
       IN  /\ pool' = Tail(pool)
           /\ IF pointsAreEqual(sh.start, sh.end)
              THEN /\ shapes' = Append(shapes, [sh EXCEPT !.closed = TRUE])
                   /\ shape' = NoShape
                   /\ pc' = "while"
                   /\ UNCHANGED <<index, nextNotFound>>
              ELSE /\ shape' = sh
                   /\ nextNotFound' = TRUE
                   /\ index' = ScanStart
                   /\ pc' = "scan"
                   /\ UNCHANGED shapes
    /\ UNCHANGED <<file, data, unknownEntities, fileVars, run, firstRun>>

\* the for-in body on an entity no branch takes
ScanSkip ==
    /\ pc = "scan"
    /\ index <= Len(pool)
    /\ ~(pool[index].edges # <<>> /\ MatchCase(pool[index], shape) # 0)
    /\ index' = index + 1
    /\ UNCHANGED <<pc, file, data, pool, unknownEntities, shape, shapes, nextNotFound>>
    /\ UNCHANGED <<fileVars, run, firstRun>>

\* the for-in body on an entity that matches: attach, splice, break
Attach ==
    /\ pc = "scan"
    /\ index <= Len(pool)
    /\ pool[index].edges # <<>>
    /\ MatchCase(pool[index], shape) # 0
    /\ shape' = AttachCase(shape, pool[index], MatchCase(pool[index], shape))
    /\ pool' = Splice(pool, index)
    /\ nextNotFound' = FALSE
    /\ pc' = "check"
    /\ UNCHANGED <<file, data, unknownEntities, shapes, index, fileVars, run, firstRun>>

\* the for-in loop runs out of entities
ScanEnd ==
    /\ pc = "scan"
    /\ index > Len(pool)
    /\ pc' = "check"
    /\ UNCHANGED <<file, stitchVars, fileVars, run, firstRun>>

\* the closure test that ends each turn of the inner while, and the while's
\* own test: emit the shape, or scan again
Check ==
    /\ pc = "check"
    /\ IF pointsAreEqual(shape.start, shape.end)
       THEN /\ shapes' = Append(shapes, [shape EXCEPT !.closed = TRUE])
            /\ shape' = NoShape
            /\ pc' = "while"
            /\ UNCHANGED <<index, nextNotFound>>
       ELSE IF nextNotFound
       THEN /\ shapes' = Append(shapes, shape)
            /\ shape' = NoShape
            /\ pc' = "while"
            /\ UNCHANGED <<index, nextNotFound>>
       ELSE /\ nextNotFound' = TRUE
            /\ index' = ScanStart
            /\ pc' = "scan"
            /\ UNCHANGED <<shape, shapes>>
    /\ UNCHANGED <<file, data, pool, unknownEntities, fileVars, run, firstRun>>

\* findShapes returns { shapes, unknownEntities }
Return ==
    /\ pc = "while"
    /\ pool = <<>>
    /\ pc' = "stitched"
    /\ UNCHANGED <<file, stitchVars, fileVars, run, firstRun>>

----------------------------------------------------------------------------
(* The kernel and the clock *)

MAIN_INCLUDES_CHECK_TIMEOUT == 1 * 1000

CHECK_TIMEOUT_MESSAGE == "check_timeout"

MAX_BORDER_DISTANCE == 10000 * LenUnit

\* What the kernel does with one shape: createPolygon returns or throws,
\* isValid() answers, area() returns or throws.  The kernel is an external
\* library; each outcome is possible for each shape.
PolygonOutcomes ==
    { [built |-> FALSE, valid |-> TRUE, area |-> TRUE] }
      \cup [built : {TRUE}, valid : BOOLEAN, area : BOOLEAN]

\* The kernel is a function of its arguments: a question it has answered
\* has the same answer again; any other has either answer.
Answers(memo, question, all) ==
    IF question \in DOMAIN memo THEN {memo[question]} ELSE all

Remember(memo, question, answer) ==
    [q \in (DOMAIN memo) \cup {question} |->
        IF q = question THEN answer ELSE memo[q]]

\* the values new Date().getTime() can return at or after time t: the clock
\* does not run backwards; the values are the ones on either side of the budget
ClockReadings(t) ==
    { r \in {0, MAIN_INCLUDES_CHECK_TIMEOUT, MAIN_INCLUDES_CHECK_TIMEOUT + 1} : r >= t }

\* the least and greatest coordinates of a face
FaceBox(entity) ==
    CASE entity.type = "LINE" ->
           [xmin |-> Min(entity.edges[1].x, entity.edges[2].x),
            xmax |-> Max(entity.edges[1].x, entity.edges[2].x),
            ymin |-> Min(entity.edges[1].y, entity.edges[2].y),
            ymax |-> Max(entity.edges[1].y, entity.edges[2].y)]
      [] entity.type = "CIRCLE" ->
           [xmin |-> entity.center.x - entity.radius,
            xmax |-> entity.center.x + entity.radius,
            ymin |-> entity.center.y - entity.radius,
            ymax |-> entity.center.y + entity.radius]

\* the four probes of findBounds: the sides of the square of half-width
\* MAX_BORDER_DISTANCE about the origin, each a Segment
Probe(side) ==
    CASE side = "top" ->
           [xmin |-> -MAX_BORDER_DISTANCE, xmax |-> MAX_BORDER_DISTANCE,
            ymin |-> MAX_BORDER_DISTANCE, ymax |-> MAX_BORDER_DISTANCE]
      [] side = "bottom" ->
           [xmin |-> -MAX_BORDER_DISTANCE, xmax |-> MAX_BORDER_DISTANCE,
            ymin |-> -MAX_BORDER_DISTANCE, ymax |-> -MAX_BORDER_DISTANCE]
      [] side = "left" ->
           [xmin |-> -MAX_BORDER_DISTANCE, xmax |-> -MAX_BORDER_DISTANCE,
            ymin |-> -MAX_BORDER_DISTANCE, ymax |-> MAX_BORDER_DISTANCE]
      [] side = "right" ->
           [xmin |-> MAX_BORDER_DISTANCE, xmax |-> MAX_BORDER_DISTANCE,
            ymin |-> -MAX_BORDER_DISTANCE, ymax |-> MAX_BORDER_DISTANCE]

\* how far apart the intervals [a1, a2] and [b1, b2] are, 0 when they meet
Gap(a1, a2, b1, b2) == Max(0, Max(a1 - b2, b1 - a2))

\* the length of the vector (dx, dy), dx and dy not negative, rounded down
\* as Sqrt rounds: it is the longer component when the square of the
\* shorter one is less than the gap to the next square
Hypot(dx, dy) ==
    IF Min(dx, dy) * Min(dx, dy) < 2 * Max(dx, dy) + 1 THEN Max(dx, dy)
    ELSE Sqrt(dx * dx + dy * dy)

\* The kernel's distance of a face to a probe.  An axis-parallel segment and
\* an axis-parallel probe are apart by the gaps of their extents in x and y.
\* A circle abreast of the probe is apart from it by its centre's distance
\* less the radius, 0 when it reaches the probe.
FaceDistance(entity, p) ==
    LET b == FaceBox(entity)
    IN  CASE entity.type = "LINE" ->
               Hypot(Gap(b.xmin, b.xmax, p.xmin, p.xmax), Gap(b.ymin, b.ymax, p.ymin, p.ymax))
          [] entity.type = "CIRCLE" /\ p.ymin = p.ymax
                /\ p.xmin <= entity.center.x /\ entity.center.x <= p.xmax ->
               Max(0, Abs(entity.center.y - p.ymin) - entity.radius)
          [] entity.type = "CIRCLE" /\ p.xmin = p.xmax
                /\ p.ymin <= entity.center.y /\ entity.center.y <= p.ymax ->
               Max(0, Abs(entity.center.x - p.xmin) - entity.radius)

RECURSIVE DistanceFrom(_, _, _, _)
\* the least distance of the faces entities[i..] to the probe, d at most
DistanceFrom(entities, i, p, d) ==
    IF i > Len(entities) THEN d
    ELSE DistanceFrom(entities, i + 1, p, Min(d, FaceDistance(entities[i], p)))

\* The kernel's polygon.distanceTo(probe)[0]: the least distance between a
\* face of the polygon and the probe.
distanceTo(entities, side) ==
    DistanceFrom(entities, 2, Probe(side), FaceDistance(entities[1], Probe(side)))

findBounds(sh) ==
    LET distanceTop == distanceTo(sh.entities, "top")
        distanceBottom == distanceTo(sh.entities, "bottom")
        distanceLeft == distanceTo(sh.entities, "left")
        distanceRight == distanceTo(sh.entities, "right")
    IN  [leftBottom |-> Pt(distanceLeft - MAX_BORDER_DISTANCE,
                           distanceBottom - MAX_BORDER_DISTANCE),
         rightTop |-> Pt(MAX_BORDER_DISTANCE - distanceRight,
                         MAX_BORDER_DISTANCE - distanceTop)]

----------------------------------------------------------------------------
(* getFileData *)

\* An entry of fileData.errors: the message's text without the shape's
\* number and the exception's message, and the shape's number as the code
\* prints it (0-based), -1 for a message about the file.
ShapeError(text, i) == [text |-> text, shape |-> i]

MainShapeError == ShapeError("Can not define main shape", -1)

SkippedNote == ShapeError("Skipped \"all shapes in main shape\" check", -1)

\* the struct of lines 425-434
NewFileData(tally) ==
    [area |-> Num(0, 0), perimeter |-> Num(0, 0), unknownEntities |-> tally,
     errors |-> <<>>, splineExists |-> "SPLINE" \in DOMAIN tally,
     shapes |-> <<>>, width |-> 0, height |-> 0]

\* the filter callback that drops a shape the kernel reports invalid
MeasureShapeDropInvalid(sh, i, o) ==
    IF ~o.built
    THEN [shape |-> sh, errors |-> <<ShapeError("has errors", i - 1)>>, keep |-> FALSE]
    ELSE IF ~o.valid
    THEN [shape |-> [sh EXCEPT !.polygon = <<i>>],
          errors |-> <<ShapeError("is invalid", i - 1)>>, keep |-> FALSE]
    ELSE IF ~o.area
    THEN [shape |-> [sh EXCEPT !.polygon = <<i>>],
          errors |-> <<ShapeError("Can not compute area", i - 1)>>, keep |-> FALSE]
    ELSE [shape |-> [sh EXCEPT !.polygon = <<i>>, !.area = <<polygonArea(sh.entities)>>,
                               !.perimeter = calcPerimeter(sh)],
          errors |-> <<>>, keep |-> TRUE]

\* The filter callback on shapes[i] (i 1-based) under the kernel's outcome o:
\* the shape as the callback leaves it, the errors it pushes, and whether
\* the shape is kept.
MeasureShape(sh, i, o) ==
    IF ~o.built
    THEN [shape |-> sh, errors |-> <<ShapeError("has errors", i - 1)>>, keep |-> FALSE]
    ELSE LET s1 == [sh EXCEPT !.polygon = <<i>>]
             e1 == IF o.valid THEN <<>> ELSE <<ShapeError("is invalid", i - 1)>>
         IN  IF ~o.area
             THEN [shape |-> s1,
                   errors |-> e1 \o <<ShapeError("Can not compute area", i - 1)>>,
                   keep |-> FALSE]
             ELSE LET s2 == [s1 EXCEPT !.area = <<polygonArea(sh.entities)>>]
                      p == calcPerimeter(sh)
                  IN  IF p = <<>>
                      THEN [shape |-> s2,
                            errors |-> e1 \o <<ShapeError("Can not compute perimeter", i - 1)>>,
                            keep |-> FALSE]
                      ELSE [shape |-> [s2 EXCEPT !.perimeter = p],
                            errors |-> e1, keep |-> TRUE]

\* lines 424-434: the result struct, before the filter
StartMeasure ==
    /\ pc = "stitched"
    /\ fileData' = NewFileData(unknownEntities)
    /\ mi' = 1
    /\ survivors' = <<>>
    /\ pc' = "measure"
    /\ UNCHANGED <<file, stitchVars, mainShapeIndex, si, mainShape, vi, started, now,
                   readings, kernelPolygon, kernelContains, run, firstRun>>

\* one call of the filter callback
Measure ==
    /\ pc = "measure"
    /\ mi <= Len(shapes)
    /\ \E o \in Answers(kernelPolygon, mi, PolygonOutcomes) :
          LET r == MeasureShape(shapes[mi], mi, o)
          IN  /\ kernelPolygon' = Remember(kernelPolygon, mi, o)
              /\ shapes' = [shapes EXCEPT ![mi] = r.shape]
              /\ fileData' = [fileData EXCEPT !.errors = @ \o r.errors]
              /\ survivors' = IF r.keep THEN Append(survivors, r.shape) ELSE survivors
    /\ mi' = mi + 1
    /\ UNCHANGED <<pc, file, data, pool, unknownEntities, shape, index, nextNotFound,
                   mainShapeIndex, si, mainShape, vi, started, now, readings,
                   kernelContains, run, firstRun>>

\* the filter is through; findMainShape(shapes) is called (lines 316-321)
FindMainShape ==
    /\ pc = "measure"
    /\ mi > Len(shapes)
    /\ IF Len(survivors) = 1
       THEN /\ mainShape' = <<survivors[1]>>
            /\ pc' = "gotMain"
            /\ UNCHANGED <<mainShapeIndex, si>>
       ELSE /\ mainShapeIndex' = -1
            /\ si' = 1
            /\ pc' = "select"
            /\ UNCHANGED mainShape
    /\ UNCHANGED <<file, stitchVars, fileData, mi, survivors, vi, started, now,
                   readings, kernelPolygon, kernelContains, run, firstRun>>

\* the kernel's handle of a surviving shape (0-based position in survivors)
PolygonAt(k) == survivors[k + 1].polygon[1]

\* the selection loop's verdict on shapes[i], from the answers a of
\* shapes[0].contains(shapes[i]) and b of shapes[i].contains(shapes[0]):
\* the index of the main shape, -1 while there is none
ProbePair(a, b, i) == IF a THEN 0 ELSE IF b THEN i ELSE -1

\* one turn of the selection loop (lines 321-330); the second question is
\* asked only when the first is answered no
Select ==
    /\ pc = "select"
    /\ si < Len(survivors)
    /\ LET q1 == <<PolygonAt(0), PolygonAt(si)>>
           q2 == <<PolygonAt(si), PolygonAt(0)>>
       IN  \E a \in Answers(kernelContains, q1, BOOLEAN) :
           \E b \in (IF a THEN {FALSE} ELSE Answers(kernelContains, q2, BOOLEAN)) :
              /\ kernelContains' =
                    IF a THEN Remember(kernelContains, q1, a)
                    ELSE Remember(Remember(kernelContains, q1, a), q2, b)
              /\ IF a \/ b
                 THEN /\ mainShapeIndex' = ProbePair(a, b, si)
                      /\ pc' = "splice"
                      /\ UNCHANGED si
                 ELSE /\ si' = si + 1
                      /\ UNCHANGED <<mainShapeIndex, pc>>
    /\ UNCHANGED <<file, stitchVars, fileData, mi, survivors, mainShape, vi, started,
                   now, readings, kernelPolygon, run, firstRun>>

\* the selection loop runs out of shapes
SelectEnd ==
    /\ pc = "select"
    /\ si >= Len(survivors)
    /\ pc' = "splice"
    /\ UNCHANGED <<file, stitchVars, fileVars, run, firstRun>>

\* the position (1-based) Array.prototype.splice(start, 1) removes from an
\* array of n elements: a negative start counts from the end
SpliceStart(start, n) == (IF start < 0 THEN Max(n + start, 0) ELSE Min(start, n)) + 1

\* lines 331-335: the main shape moves to the front; the clock is read
MoveMainFirst ==
    /\ pc = "splice"
    /\ LET k == SpliceStart(mainShapeIndex, Len(survivors))
       IN  IF k <= Len(survivors)
           THEN /\ mainShape' = <<survivors[k]>>
                /\ survivors' = <<survivors[k]>> \o Splice(survivors, k)
           ELSE \* splice of an empty array yields undefined; the array
                \* becomes [undefined], whose only element forEach passes over
                /\ mainShape' = <<>>
                /\ survivors' = <<>>
    /\ \E t \in ClockReadings(now) : now' = t /\ started' = t
    /\ readings' = <<>>
    /\ vi' = 1
    /\ pc' = "verify"
    /\ UNCHANGED <<file, stitchVars, fileData, mi, mainShapeIndex, si,
                   kernelPolygon, kernelContains, run, firstRun>>

\* the budget test with >= for >
TimedOutInclusive(elapsed) == elapsed >= MAIN_INCLUDES_CHECK_TIMEOUT

TimedOut(elapsed) == elapsed > MAIN_INCLUDES_CHECK_TIMEOUT

\* the callback with the clock test before the containment test
CheckInsideClockFirst(inside, elapsed) ==
    IF TimedOut(elapsed) THEN CHECK_TIMEOUT_MESSAGE
    ELSE IF ~inside THEN "Not all shapes inside main shape"
    ELSE ""

\* the forEach callback of lines 337-347 for index > 0: the message of the
\* Error it throws, "" when it returns; elapsed is what the clock shows past
\* `started` when polygon.contains has answered
CheckInside(inside, elapsed) ==
    IF ~inside THEN "Not all shapes inside main shape"
    ELSE IF TimedOut(elapsed) THEN CHECK_TIMEOUT_MESSAGE
    ELSE ""

\* a catch that swallows every error
CaughtAlways(message) == TRUE

\* a catch that rethrows every error
CaughtNever(message) == FALSE

\* the catch of lines 348-354: whether the error is swallowed
CaughtAsTimeout(message) == message = CHECK_TIMEOUT_MESSAGE

\* one call of the forEach callback, with what its throw leads to: the
\* timeout marks the main shape and findMainShape returns it; the other
\* error leaves findMainShape and is caught in getFileData (lines 467-470).
\* Time passes while the kernel answers; the clock is read (and the reading
\* noted) only when the shape is inside.
Verify ==
    /\ pc = "verify"
    /\ vi < Len(survivors)
    /\ \E a \in Answers(kernelContains, <<PolygonAt(0), PolygonAt(vi)>>, BOOLEAN) :
       \E t \in ClockReadings(now) :
          LET message == CheckInside(a, t - started)
          IN  /\ kernelContains' = Remember(kernelContains, <<PolygonAt(0), PolygonAt(vi)>>, a)
              /\ now' = t
              /\ readings' = IF a THEN Append(readings, t - started) ELSE readings
              /\ IF message = ""
                 THEN /\ vi' = vi + 1
                      /\ UNCHANGED <<pc, mainShape, survivors, fileData>>
                 ELSE IF CaughtAsTimeout(message)
                 THEN /\ mainShape' = <<[mainShape[1] EXCEPT !.skippedIncludesCheck = TRUE]>>
                      /\ survivors' = [survivors EXCEPT ![1].skippedIncludesCheck = TRUE]
                      /\ pc' = "gotMain"
                      /\ UNCHANGED <<vi, fileData>>
                 ELSE /\ fileData' = [fileData EXCEPT !.errors = Append(@, MainShapeError)]
                      /\ pc' = "done"
                      /\ UNCHANGED <<vi, mainShape, survivors>>
    /\ UNCHANGED <<file, stitchVars, mi, mainShapeIndex, si, started, kernelPolygon,
                   run, firstRun>>

\* the forEach is through: findMainShape returns mainShape
VerifyEnd ==
    /\ pc = "verify"
    /\ vi >= Len(survivors)
    /\ pc' = "gotMain"
    /\ UNCHANGED <<file, stitchVars, fileVars, run, firstRun>>

RECURSIVE SumNestedPerimeters(_, _)
\* the reduce that leaves the main shape's perimeter out
SumNestedPerimeters(shs, i) ==
    IF i > Len(shs) THEN Num(0, 0)
    ELSE IF i = 1 THEN SumNestedPerimeters(shs, 2)
    ELSE Plus(shs[i].perimeter[1], SumNestedPerimeters(shs, i + 1))

\* shapes.reduce((acc, val) => acc + val.perimeter, 0)
RECURSIVE SumPerimeters(_, _)
SumPerimeters(shs, i) ==
    IF i > Len(shs) THEN Num(0, 0)
    ELSE Plus(shs[i].perimeter[1], SumPerimeters(shs, i + 1))

\* lines 466-485, with mainShape the value findMainShape returned; reading
\* .area of undefined throws inside the try and gives the main-shape error
Finish ==
    /\ pc = "gotMain"
    /\ IF mainShape = <<>>
       THEN fileData' = [fileData EXCEPT !.errors = Append(@, MainShapeError)]
       ELSE LET bounds == findBounds(mainShape[1])
            IN  fileData' =
                  [fileData EXCEPT
                     !.area = mainShape[1].area[1],
                     !.errors = IF mainShape[1].skippedIncludesCheck
                                THEN Append(@, SkippedNote) ELSE @,
                     !.perimeter = SumPerimeters(survivors, 1),
                     !.shapes = [k \in 1..Len(survivors) |->
                                   [area |-> survivors[k].area[1],
                                    perimeter |-> survivors[k].perimeter[1]]],
                     !.width = bounds.rightTop.x - bounds.leftBottom.x,
                     !.height = bounds.rightTop.y - bounds.leftBottom.y]
    /\ pc' = "done"
    /\ UNCHANGED <<file, stitchVars, mi, survivors, mainShapeIndex, si, mainShape, vi,
                   started, now, readings, kernelPolygon, kernelContains, run, firstRun>>

----------------------------------------------------------------------------
(* Inputs *)

\* the corners of the unit square
CornerA == Pt(0, 0)

CornerB == Pt(LenUnit, 0)

CornerC == Pt(LenUnit, LenUnit)

CornerD == Pt(0, LenUnit)

SquareSides == <<<<CornerA, CornerB>>, <<CornerB, CornerC>>,
                 <<CornerC, CornerD>>, <<CornerD, CornerA>>>>

\* the four sides of the unit square as LINEs, in every order and with
\* either endpoint first
SquareInputs ==
    { [i \in 1..4 |->
          IF flip[i] THEN LineOf(SquareSides[perm[i]][2], SquareSides[perm[i]][1])
          ELSE LineOf(SquareSides[perm[i]][1], SquareSides[perm[i]][2])] :
      perm \in {f \in [1..4 -> 1..4] : \A i, j \in 1..4 : f[i] = f[j] => i = j},
      flip \in [1..4 -> BOOLEAN] }

\* entities the parser can deliver, chosen so that endpoints meet exactly,
\* meet within the tolerance, miss it by the least amount, or are far apart
Templates ==
    { LineOf(CornerA, CornerB),
      LineOf(CornerB, CornerA),
      LineOf(CornerB, CornerC),
      LineOf(CornerB, Pt(EQUAL_TRESHOLD \div 2, 0)),
      LineOf(CornerB, Pt(EQUAL_TRESHOLD, 0)),
      LineOf(CornerC, Pt(LenUnit, LenUnit + EQUAL_TRESHOLD)),
      CircleOf(CornerA, LenUnit),
      OtherOf("SPLINE"),
      OtherOf("POINT"),
      PolylineOf(<<CornerC, CornerD, CornerA>>, FALSE),
      PolylineOf(<<CornerA, CornerB, CornerC, CornerD>>, TRUE),
      PolylineOf(<<CornerA, Vertice(LenUnit, 0, 1)>>, FALSE),
      ArcOf(CornerA, LenUnit, 0, 1) }

TemplateLists == UNION { [1..n -> Templates] : n \in 0..MaxEntities }

\* a closed polyline around the unit square and a circle inside it
SquarePolyline == PolylineOf(<<CornerA, CornerB, CornerC, CornerD>>, TRUE)

InnerCircle == CircleOf(Pt(LenUnit \div 2, LenUnit \div 2), LenUnit \div 4)

FileTemplates == { SquarePolyline, InnerCircle }

\* files whose shapes have to be stitched from lines: the unit square with a
\* circle in it, a lone line beside a circle, and the square after an
\* entity of an unknown type
StitchedFiles ==
    { <<LineOf(CornerA, CornerB), InnerCircle, LineOf(CornerC, CornerB),
        LineOf(CornerC, CornerD), LineOf(CornerD, CornerA)>>,
      <<LineOf(CornerA, CornerB), InnerCircle>>,
      <<OtherOf("SPLINE"), LineOf(CornerD, CornerA), LineOf(CornerC, CornerD),
        LineOf(CornerA, CornerB), LineOf(CornerB, CornerC)>> }

\* where the rectangles' left sides lie: about the origin, and just inside
\* the right probe of findBounds
RectangleXs == {-LenUnit, 0, MAX_BORDER_DISTANCE - LenUnit}

\* where their bottom sides lie
RectangleYs == {-LenUnit, 0}

\* their widths and heights
RectangleSizes == {LenUnit, 2 * LenUnit}

\* the rectangle [x0, x1] x [y0, y1] as a closed polyline
Rectangle(x0, x1, y0, y1) ==
    PolylineOf(<<Pt(x0, y0), Pt(x1, y0), Pt(x1, y1), Pt(x0, y1)>>, TRUE)

\* files of one rectangle
RectangleFiles ==
    { <<Rectangle(r[1], r[1] + r[2], r[3], r[3] + r[4])>> :
        r \in RectangleXs \X RectangleSizes \X RectangleYs \X RectangleSizes }

FileLists ==
    StitchedFiles \cup RectangleFiles
      \cup UNION { [1..n -> FileTemplates] : n \in 0..MaxFileEntities }

\* a file the parser reads as the entity list l
ParsedFile(l) == [parsed |-> TRUE, entities |-> l]

\* a file the parser throws on
RejectedFile == [parsed |-> FALSE, entities |-> <<>>]

\* data.entities as readDxf returns it, each entity tagged with its index
WithIds(entities) == [i \in 1..Len(entities) |-> [entities[i] EXCEPT !.id = i]]

\* the variables at the entry of getFileData, for the file f
Fresh(f) ==
    /\ file = f
    /\ data = <<>>
    /\ pool = <<>>
    /\ unknownEntities = [t \in {} |-> 0]
    /\ shape = NoShape
    /\ shapes = <<>>
    /\ index = ScanStart
    /\ nextNotFound = FALSE
    /\ fileData = NewFileData([t \in {} |-> 0])
    /\ mi = 1
    /\ survivors = <<>>
    /\ mainShapeIndex = -1
    /\ si = 1
    /\ mainShape = <<>>
    /\ vi = 1
    /\ started = 0
    /\ now = 0
    /\ readings = <<>>
    /\ kernelPolygon = [q \in {} |-> 0]
    /\ kernelContains = [q \in {} |-> FALSE]
    /\ run = 1
    /\ firstRun = <<>>

\* the state at the entry of getFileData, for the file f
Entry(f) == pc = "readDxf" /\ Fresh(f)

\* readDxf: the parser's entity list, or null (no entities here: DataIsNull
\* tells the two apart)
ReadDxf ==
    /\ pc = "readDxf"
    /\ data' = IF file.parsed THEN WithIds(file.entities) ELSE <<>>
    /\ pc' = "findEdges"
    /\ UNCHANGED <<file, pool, unknownEntities, shape, shapes, index, nextNotFound,
                   fileVars, run, firstRun>>

\* the files findShapes is checked on
Files == {RejectedFile} \cup { ParsedFile(l) : l \in SquareInputs \cup TemplateLists }

Init == \E f \in Files : Entry(f)

\* findEdges and findShapes
Next ==
    \/ ReadDxf
    \/ FindEdges
    \/ FindEdgesThrows
    \/ Filter
    \/ Seed
    \/ ScanSkip
    \/ Attach
    \/ ScanEnd
    \/ Check
    \/ Return

Spec == Init /\ [][Next]_vars

\* entities for the runs followed to their end: lines that meet at a corner,
\* within the tolerance or not at all, a circle, an entity without edges and
\* an open polyline
FairTemplates ==
    { LineOf(CornerA, CornerB),
      LineOf(CornerB, CornerA),
      LineOf(CornerB, Pt(EQUAL_TRESHOLD \div 2, 0)),
      CircleOf(CornerA, LenUnit),
      OtherOf("SPLINE"),
      PolylineOf(<<CornerC, CornerD, CornerA>>, FALSE) }

\* the squares that begin with the side A-B followed by a side from C
FairSquares ==
    { l \in SquareInputs :
        l[1].vertices = <<CornerA, CornerB>> /\ l[2].vertices[1] = CornerC }

FairFiles ==
    {RejectedFile}
      \cup { ParsedFile(l) :
               l \in FairSquares
                        \cup UNION { [1..n -> FairTemplates] : n \in 0..MaxFairEntities } }

\* before the call: no file yet
InitFair == pc = "call" /\ Fresh(ParsedFile(<<>>))

\* the caller passes a file
Call ==
    /\ pc = "call"
    /\ \E f \in FairFiles : file' = f
    /\ pc' = "readDxf"
    /\ UNCHANGED <<stitchVars, fileVars, run, firstRun>>

NextFair ==
    \/ Call
    \/ Next

\* findShapes is sequential code that runs on while it has a step to take
SpecFair == InitFair /\ [][NextFair]_vars /\ WF_vars(NextFair)

InitFile ==
    \/ \E l \in FileLists : Entry(ParsedFile(l))
    \/ Entry(RejectedFile)

\* getFileData
NextFile ==
    \/ Next
    \/ StartMeasure
    \/ Measure
    \/ FindMainShape
    \/ Select
    \/ SelectEnd
    \/ MoveMainFirst
    \/ Verify
    \/ VerifyEnd
    \/ Finish

SpecFile == InitFile /\ [][NextFile]_vars

\* what a call of getFileData returned: the result struct, the main shape's
\* polygon (0 when there is none), and the elapsed times its loop read
Returned ==
    [result |-> fileData,
     main |-> IF mainShape = <<>> THEN 0 ELSE mainShape[1].polygon[1],
     readings |-> readings]

\* getFileData is called again on the same file: the parser makes fresh
\* entities of it, the kernel is the same function, and the clock (of which
\* the code uses differences only) is counted from the new call
CallAgain ==
    /\ pc = "done"
    /\ run = 1
    /\ run' = 2
    /\ firstRun' = <<Returned>>
    /\ pc' = "readDxf"
    /\ data' = <<>>
    /\ pool' = <<>>
    /\ unknownEntities' = [t \in {} |-> 0]
    /\ shape' = NoShape
    /\ shapes' = <<>>
    /\ index' = ScanStart
    /\ nextNotFound' = FALSE
    /\ fileData' = NewFileData([t \in {} |-> 0])
    /\ mi' = 1
    /\ survivors' = <<>>
    /\ mainShapeIndex' = -1
    /\ si' = 1
    /\ mainShape' = <<>>
    /\ vi' = 1
    /\ started' = 0
    /\ now' = 0
    /\ readings' = <<>>
    /\ UNCHANGED <<file, kernelPolygon, kernelContains>>

\* getFileData, called twice on one file
NextTwice ==
    \/ NextFile
    \/ CallAgain

\* the files called on twice: the stitched ones, a file of three shapes,
\* and the short lists of FileTemplates
TwiceLists ==
    StitchedFiles \cup { <<SquarePolyline, InnerCircle, InnerCircle>> }
      \cup UNION { [1..n -> FileTemplates] : n \in 0..MaxTwiceEntities }

InitTwice ==
    \/ \E l \in TwiceLists : Entry(ParsedFile(l))
    \/ Entry(RejectedFile)

SpecTwice == InitTwice /\ [][NextTwice]_vars

----------------------------------------------------------------------------
(* Vocabulary of the properties *)

\* the L1 distance of two points
Dist1(p, q) == Abs(p.x - q.x) + Abs(p.y - q.y)

\* equal within the tolerance, written out
Near(p, q) == Dist1(p, q) < EQUAL_TRESHOLD

\* the input entity a primitive of a shape comes from
Origin(e) == IF e.polyline # 0 THEN e.polyline ELSE e.id

Origins(entities) == { Origin(entities[i]) : i \in 1..Len(entities) }

KnownTypes == {"LINE", "ARC", "CIRCLE", "LWPOLYLINE"}

\* the entity has an endpoint equal within tolerance to the shape's start or end
Touches(e, sh) ==
    \E p \in {e.edges[1], e.edges[2]}, q \in {sh.start, sh.end} : Near(p, q)

\* findShapes is past its filter
Filtered == pc \notin {"call", "readDxf", "findEdges", "thrown", "filter"}

\* data.entities is the four sides of the unit square, in some order and
\* with some direction each
IsUnitSquareInput ==
    /\ Len(data) = 4
    /\ \A i \in 1..4 : data[i].type = "LINE"
    /\ { {data[i].vertices[1], data[i].vertices[2]} : i \in 1..4 }
         = { {CornerA, CornerB}, {CornerB, CornerC}, {CornerC, CornerD}, {CornerD, CornerA} }

----------------------------------------------------------------------------
(* C1 *)

\* C1: for four LINEs forming the unit square, in any order and with any
\* direction each, findShapes returns exactly one shape; it is closed, holds
\* all four lines (each once), its perimeter is 4 and its area 1.
C1_SquareIsOneClosedShape ==
    (pc = "stitched" /\ IsUnitSquareInput) =>
        /\ Len(shapes) = 1
        /\ shapes[1].closed
        /\ Len(shapes[1].entities) = 4
        /\ Origins(shapes[1].entities) = 1..4
        /\ \A i \in 1..4 :
              /\ shapes[1].entities[i].type = "LINE"
              /\ {shapes[1].entities[i].edges[1], shapes[1].entities[i].edges[2]}
                   = {data[shapes[1].entities[i].id].vertices[1],
                      data[shapes[1].entities[i].id].vertices[2]}
        /\ calcPerimeter(shapes[1]) = <<Num(4 * LenUnit, 0)>>
        /\ polygonArea(shapes[1].entities) = Num(LenUnit * LenUnit, 0)

\* a square given out of order and against the direction of travel has been
\* stitched: the seed is the side C-B, and lines had to be swapped
C1_Witness ==
    /\ pc = "stitched"
    /\ IsUnitSquareInput
    /\ data[1].vertices = <<CornerC, CornerB>>
    /\ data[2].vertices = <<CornerA, CornerD>>
    /\ Len(shapes) = 1
    /\ \E i, j \in 1..Len(shapes[1].entities) :
          shapes[1].entities[i].reverse /\ ~shapes[1].entities[j].reverse

----------------------------------------------------------------------------
(* C2 *)

\* C2: every CIRCLE of the input is emitted as a shape of its own, single and
\* closed, and is never part of a shape together with another primitive.
C2_CircleIsAlwaysItsOwnShape ==
    pc = "stitched" =>
        \A i \in 1..Len(data) :
            data[i].type = "CIRCLE" =>
                /\ \E k \in 1..Len(shapes) :
                      /\ Origins(shapes[k].entities) = {i}
                      /\ Len(shapes[k].entities) = 1
                      /\ shapes[k].single
                      /\ shapes[k].closed
                /\ \A k \in 1..Len(shapes) :
                      i \in Origins(shapes[k].entities) => Len(shapes[k].entities) = 1

----------------------------------------------------------------------------
(* C8 *)

\* C8: an emitted shape is marked closed exactly when its final start and end
\* are less than EQUAL_TRESHOLD apart (|dx| + |dy|).
C8_ClosedIffEndsMeet ==
    \A k \in 1..Len(shapes) :
        shapes[k].closed <=> Dist1(shapes[k].start, shapes[k].end) < EQUAL_TRESHOLD

\* findShapes has emitted a stitched shape that closes within the tolerance
\* without its ends being the same point, and an open shape whose ends are
\* exactly EQUAL_TRESHOLD apart
C8_Witness ==
    /\ pc = "stitched"
    /\ \E k \in 1..Len(shapes) :
          /\ shapes[k].closed
          /\ Len(shapes[k].entities) > 1
          /\ Dist1(shapes[k].start, shapes[k].end) > 0
    /\ \E k \in 1..Len(shapes) :
          /\ ~shapes[k].closed
          /\ Dist1(shapes[k].start, shapes[k].end) = EQUAL_TRESHOLD

----------------------------------------------------------------------------
(* C9 *)

RECURSIVE SumOf(_, _)
\* the sum of the tally's counts over the types in S
SumOf(tally, S) ==
    IF S = {} THEN 0
    ELSE LET t == CHOOSE x \in S : TRUE
         IN  tally[t] + SumOf(tally, S \ {t})

\* the input entities of type t
OfType(t) == { i \in 1..Len(data) : data[i].type = t }

\* the input entities the Normalizer gave no edges
Unrecognized == { i \in 1..Len(data) : data[i].type \notin KnownTypes }

\* C9: an entity of a type other than LINE, ARC, CIRCLE, LWPOLYLINE is in no
\* shape (nor in the pool or the shape under construction), and the tally
\* holds for each such type exactly the number of input entities of that
\* type, so the counts sum to the number of entities kept out of stitching.
C9_UnknownEntitiesCountedNotStitched ==
    Filtered =>
        /\ \A i \in Unrecognized :
              /\ i \notin Origins(pool) \cup Origins(shape.entities)
              /\ \A k \in 1..Len(shapes) : i \notin Origins(shapes[k].entities)
        /\ DOMAIN unknownEntities = { data[i].type : i \in Unrecognized }
        /\ \A t \in DOMAIN unknownEntities :
              unknownEntities[t] = Cardinality(OfType(t))
        /\ SumOf(unknownEntities, DOMAIN unknownEntities) = Cardinality(Unrecognized)
        /\ Cardinality(Unrecognized) = Len(data) - Len(FilterEdges(data))

\* findShapes has returned a shape for an input with two entities of one
\* unknown type
C9_Witness ==
    /\ pc = "stitched"
    /\ Len(shapes) > 0
    /\ \E t \in DOMAIN unknownEntities : unknownEntities[t] = 2

----------------------------------------------------------------------------
(* C10 *)

\* the step attaches the primitive under the cursor
IsAttachStep == pc = "scan" /\ pc' = "check" /\ Len(pool') = Len(pool) - 1

\* the primitives of sh2 are those of sh after n new ones
Prepended(sh, sh2, n) ==
    /\ Len(sh2.entities) = Len(sh.entities) + n
    /\ \A j \in 1..Len(sh.entities) : sh2.entities[n + j] = sh.entities[j]
    /\ sh2.end = sh.end

\* the primitives of sh2 are those of sh followed by n new ones
Appended(sh, sh2, n) ==
    /\ Len(sh2.entities) = Len(sh.entities) + n
    /\ \A j \in 1..Len(sh.entities) : sh2.entities[j] = sh.entities[j]
    /\ sh2.start = sh.start

\* how many primitives an entity contributes to a shape
Pieces(e) == IF e.type = "LWPOLYLINE" THEN Len(e.vertices) - 1 ELSE 1

\* the attached primitive is the lowest-indexed one touching the shape's
\* start or end, and no other leaves the pool
LowestIndexWins ==
    IsAttachStep =>
        /\ Touches(pool[index], shape)
        /\ \A j \in 1..(index - 1) : ~Touches(pool[j], shape)
        /\ Len(pool') = Len(pool) - 1
        /\ \A j \in 1..Len(pool') : pool'[j] = pool[IF j < index THEN j ELSE j + 1]
        /\ Origins(shape'.entities) = Origins(shape.entities) \cup {pool[index].id}

\* the attachment is the one of the first test that holds, in the order
\* edges[0]==start, edges[0]==end, edges[1]==start, edges[1]==end
FirstTestDecides ==
    IsAttachStep =>
        LET e == pool[index]
            n == Pieces(e)
        IN  IF Near(e.edges[1], shape.start)
            THEN Prepended(shape, shape', n) /\ shape'.start = e.edges[2]
            ELSE IF Near(e.edges[1], shape.end)
            THEN Appended(shape, shape', n) /\ shape'.end = e.edges[2]
            ELSE IF Near(e.edges[2], shape.start)
            THEN Prepended(shape, shape', n) /\ shape'.start = e.edges[1]
            ELSE /\ Near(e.edges[2], shape.end)
                 /\ Appended(shape, shape', n) /\ shape'.end = e.edges[1]

\* a scan that begins, begins at the first pool index
ScanRestarts == (pc # "scan" /\ pc' = "scan") => index' = 1

\* C10: in every scan the attached primitive is the one with the lowest pool
\* index among those with an endpoint equal within tolerance to the shape's
\* start or end; how it is attached is decided by the first test that holds
\* in the fixed order; after the attachment the scan restarts from index 0.
C10_LowestIndexFirstTestRestart ==
    [][LowestIndexWins /\ FirstTestDecides /\ ScanRestarts]_vars

\* a scan has skipped a primitive and stands on one that touches the shape,
\* with another primitive that touches the shape further down the pool
C10_Witness ==
    /\ pc = "scan"
    /\ index > 1
    /\ index < Len(pool)
    /\ Touches(pool[index], shape)
    /\ \E j \in (index + 1)..Len(pool) : Touches(pool[j], shape)

----------------------------------------------------------------------------
(* Vocabulary of the properties of getFileData *)

\* the kernel handles of the surviving shapes: a shape's handle is its
\* position in findShapes' result, so shape 0 of the survivors has the least
SurvivorHandles == { survivors[k].polygon[1] : k \in 1..Len(survivors) }

SetMin(S) == CHOOSE m \in S : \A x \in S : m <= x

SetMax(S) == CHOOSE m \in S : \A x \in S : x <= m

ShapeZero == SetMin(SurvivorHandles)

\* the kernel has answered that polygon a contains polygon b
Said(a, b) == <<a, b>> \in DOMAIN kernelContains /\ kernelContains[<<a, b>>]

\* the kernel has answered that polygon a does not contain polygon b
SaidNot(a, b) == <<a, b>> \in DOMAIN kernelContains /\ ~kernelContains[<<a, b>>]

\* errors holds the fatal main-shape error
Fatal == \E k \in 1..Len(fileData.errors) : fileData.errors[k] = MainShapeError

ZeroMetrics ==
    /\ fileData.area = Num(0, 0)
    /\ fileData.perimeter = Num(0, 0)
    /\ fileData.width = 0
    /\ fileData.height = 0
    /\ fileData.shapes = <<>>

MainHandle == mainShape[1].polygon[1]

\* the Measurer built every polygon, found it valid and measured it
NoMeasureErrors ==
    \A i \in DOMAIN kernelPolygon :
        kernelPolygon[i].built /\ kernelPolygon[i].valid /\ kernelPolygon[i].area

\* the x and the y coordinates a primitive reaches
XsOf(e) ==
    IF e.type = "CIRCLE" THEN {e.center.x - e.radius, e.center.x + e.radius}
    ELSE {e.edges[1].x, e.edges[2].x}

YsOf(e) ==
    IF e.type = "CIRCLE" THEN {e.center.y - e.radius, e.center.y + e.radius}
    ELSE {e.edges[1].y, e.edges[2].y}

WidthOf(sh) ==
    LET xs == UNION { XsOf(sh.entities[i]) : i \in 1..Len(sh.entities) }
    IN  SetMax(xs) - SetMin(xs)

HeightOf(sh) ==
    LET ys == UNION { YsOf(sh.entities[i]) : i \in 1..Len(sh.entities) }
    IN  SetMax(ys) - SetMin(ys)

RECURSIVE TotalPerimeter(_, _)
\* the perimeters of the first n shapes of shs, added up
TotalPerimeter(shs, n) ==
    IF n = 0 THEN Num(0, 0)
    ELSE LET rest == TotalPerimeter(shs, n - 1)
         IN  Num(rest.rat + shs[n].perimeter[1].rat, rest.qpi + shs[n].perimeter[1].qpi)

----------------------------------------------------------------------------
(* C3 *)

\* at least two shapes survive, and the kernel has answered no to both
\* containment questions between shape 0 and every other surviving shape
ShapeZeroUnrelated ==
    /\ Cardinality(SurvivorHandles) >= 2
    /\ \A h \in SurvivorHandles \ {ShapeZero} :
          SaidNot(ShapeZero, h) /\ SaidNot(h, ShapeZero)

\* C3: when at least two shapes survive and shape 0 neither contains nor is
\* contained in any other survivor, getFileData returns with the fatal
\* main-shape error in errors, area, perimeter, width and height zero and no
\* shapes listed, whatever the number of shapes and whatever the clock shows.
C3_UnrelatedShapeZeroIsFatal ==
    (pc = "done" /\ ShapeZeroUnrelated) => (Fatal /\ ZeroMetrics)

\* getFileData has returned for three surviving shapes with shape 0
\* unrelated to the others, the clock past the budget
C3_Witness ==
    /\ pc = "done"
    /\ ShapeZeroUnrelated
    /\ Cardinality(SurvivorHandles) = 3
    /\ now > MAIN_INCLUDES_CHECK_TIMEOUT

----------------------------------------------------------------------------
(* C4 *)

OuterOfPair == IF Said(1, 2) THEN 1 ELSE 2

\* shape a lies strictly inside the extent of shape b
StrictlyInside(a, b) ==
    LET xa == UNION { XsOf(a.entities[i]) : i \in 1..Len(a.entities) }
        ya == UNION { YsOf(a.entities[i]) : i \in 1..Len(a.entities) }
        xb == UNION { XsOf(b.entities[i]) : i \in 1..Len(b.entities) }
        yb == UNION { YsOf(b.entities[i]) : i \in 1..Len(b.entities) }
    IN  /\ SetMin(xb) < SetMin(xa) /\ SetMax(xa) < SetMax(xb)
        /\ SetMin(yb) < SetMin(ya) /\ SetMax(ya) < SetMax(yb)

\* exactly two shapes came out of findShapes, both closed, the Measurer kept
\* both without an error, one lies strictly inside the other and the kernel
\* says so: shape 0 contains shape 1, or it does not and shape 1 contains
\* shape 0
NestedPair ==
    /\ Len(shapes) = 2
    /\ Len(survivors) = 2
    /\ shapes[1].closed /\ shapes[2].closed
    /\ NoMeasureErrors
    /\ \/ Said(1, 2)
       \/ SaidNot(1, 2) /\ Said(2, 1)
    /\ StrictlyInside(shapes[3 - OuterOfPair], shapes[OuterOfPair])

OuterIsMain ==
    /\ mainShape # <<>>
    /\ MainHandle = OuterOfPair
    /\ fileData.area = shapes[OuterOfPair].area[1]
    /\ fileData.errors = <<>>
    /\ ~mainShape[1].skippedIncludesCheck

\* C4: for two surviving closed shapes of which one contains the
\* other, the main shape is the outer one whichever is shape 0, the result's
\* area is the outer shape's, errors is empty and skippedIncludesCheck is
\* not set.
C4_NestedPairGivesOuter ==
    (pc = "done" /\ NestedPair) => OuterIsMain

----------------------------------------------------------------------------
(* C5 *)

\* a return without the fatal error and without skippedIncludesCheck: the
\* kernel has said of every other survivor that the main shape contains it
AllInsideMain ==
    (pc = "done" /\ ~Fatal /\ mainShape # <<>> /\ ~mainShape[1].skippedIncludesCheck) =>
        \A k \in 2..Len(survivors) : Said(MainHandle, survivors[k].polygon[1])

\* a step of the containment loop in which the kernel answers that the main
\* shape does not contain the shape reached ends the run with the fatal
\* error and zero metrics
NotInsideIsFatal ==
    (/\ pc = "verify"
     /\ vi < Len(survivors)
     /\ <<PolygonAt(0), PolygonAt(vi)>> \in DOMAIN kernelContains'
     /\ ~kernelContains'[<<PolygonAt(0), PolygonAt(vi)>>])
    => (pc' = "done" /\ Fatal' /\ ZeroMetrics')

\* C5: whenever getFileData returns without the fatal main-shape error and
\* without skippedIncludesCheck, every surviving shape other than the main
\* one is contained in it; and when the containment loop reaches a shape the
\* main shape does not contain, the run ends with the file-level error and
\* zero metrics.
C5_ContainmentVerifiedOrFatal ==
    [][AllInsideMain' /\ NotInsideIsFatal]_vars

\* getFileData has returned without error or skip for three survivors whose
\* main shape was not shape 0
C5_Witness ==
    /\ pc = "done"
    /\ ~Fatal
    /\ Len(survivors) = 3
    /\ ~mainShape[1].skippedIncludesCheck
    /\ MainHandle # ShapeZero

----------------------------------------------------------------------------
(* C6 *)

\* the last reading of the clock in the containment loop was past the
\* budget; a reading is taken only after the shape reached was found inside
BudgetExceededInLoop ==
    /\ readings # <<>>
    /\ readings[Len(readings)] > MAIN_INCLUDES_CHECK_TIMEOUT

\* C6: if the budget is exceeded during containment verification before any
\* non-contained shape has been found, findMainShape stops checking, sets
\* skippedIncludesCheck on the main shape and returns it; getFileData reports
\* no fatal error and returns the main shape's area, the summed perimeter and
\* the width and height, with only the 'Skipped' note added to errors.
C6_TimeoutIsFlaggedNotFatal ==
    (pc = "done" /\ BudgetExceededInLoop) =>
        /\ mainShape # <<>>
        /\ mainShape[1].skippedIncludesCheck
        /\ Len(readings) = vi
        /\ ~Fatal
        /\ fileData.area = shapes[MainHandle].area[1]
        /\ fileData.perimeter = TotalPerimeter(survivors, Len(survivors))
        /\ fileData.width = WidthOf(mainShape[1])
        /\ fileData.height = HeightOf(mainShape[1])
        /\ Len(fileData.shapes) = Len(survivors)
        /\ fileData.errors[Len(fileData.errors)] = SkippedNote
        /\ \A k \in 1..(Len(fileData.errors) - 1) : fileData.errors[k].shape >= 0

\* getFileData has returned for three surviving shapes after the budget ran
\* out at the first of the two containment checks
C6_Witness ==
    /\ pc = "done"
    /\ BudgetExceededInLoop
    /\ Len(survivors) = 3
    /\ Len(readings) = 1
    /\ mainShape[1].skippedIncludesCheck

----------------------------------------------------------------------------
(* C7 *)

\* which readings of the clock were past the budget
PastBudget(rs) == [k \in 1..Len(rs) |-> rs[k] > MAIN_INCLUDES_CHECK_TIMEOUT]

SameAsFirstRun ==
    /\ fileData = firstRun[1].result
    /\ Returned.main = firstRun[1].main

\* C7 as claimed: two calls of getFileData on the same entity list, with the
\* same kernel answers, return the same result (main shape, errors, area,
\* perimeter, width, height), whatever the clock reads in the containment
\* loop.
C7_SameResultWhateverTheClock ==
    (pc = "done" /\ run = 2) => SameAsFirstRun

\* C7 as amended: the two calls return the same result provided the clock
\* is past the budget at the same containment checks in both (in
\* particular, when it is past it in neither).
C7_SameResultForSameTimeouts ==
    (pc = "done" /\ run = 2 /\ PastBudget(readings) = PastBudget(firstRun[1].readings))
        => SameAsFirstRun

\* the second call has returned as the first did, both flagged by the
\* timeout at the first of two checks, on different readings of the clock
C7_Witness ==
    /\ pc = "done"
    /\ run = 2
    /\ Len(survivors) = 3
    /\ readings # firstRun[1].readings
    /\ BudgetExceededInLoop
    /\ PastBudget(readings) = PastBudget(firstRun[1].readings)
    /\ SameAsFirstRun

----------------------------------------------------------------------------
(* C11 *)

\* getFileData has returned without a main shape
ReturnedFailure == pc = "done" /\ fileData.shapes = <<>>

\* C11: no exception leaves getFileData, whatever the input (a file the
\* parser rejects, an empty entity list, shapes all dropped by the
\* Measurer): it returns the result struct, and when it has measured nothing
\* the struct's errors list says why.
C11_NoExceptionEscapes ==
    /\ pc # "thrown"
    /\ ReturnedFailure => fileData.errors # <<>>

----------------------------------------------------------------------------
(* C12 *)

\* the Normalizer has run over data.entities
Normalized == pc \notin {"call", "readDxf", "findEdges", "thrown"}

\* the input polylines none of whose vertices carries a bulge
PlainPolylines ==
    { i \in 1..Len(data) :
        /\ data[i].type = "LWPOLYLINE"
        /\ \A k \in 1..Len(file.entities[i].vertices) :
              file.entities[i].vertices[k].bulge = 0 }

\* the vertex after vertex k on the contour of the input polyline i
NextVertex(i, k) ==
    LET vs == file.entities[i].vertices
    IN  IF k < Len(vs) THEN vs[k + 1] ELSE vs[1]

\* the number of lines the input polyline i is to decurve to
LinesOf(i) ==
    LET n == Len(file.entities[i].vertices)
    IN  IF file.entities[i].shape THEN n ELSE n - 1

\* the primitives of a shape that are cut from the input polyline i, in the
\* shape's order
CutFrom(sh, i) == SelectSeq(sh.entities, LAMBDA e : e.polyline = i)

----------------------------------------------------------------------------
(* C13 *)

\* the input entities the Normalizer gave edges
WithEdges == { i \in 1..Len(data) : data[i].edges # <<>> }

\* the places a normalized primitive can be in: the pool, the shape under
\* construction (0), an emitted shape (its number)
PlacesOf(i) ==
    (IF i \in Origins(pool) THEN {"pool"} ELSE {})
      \cup (IF i \in Origins(shape.entities) THEN {0} ELSE {})
      \cup { k \in 1..Len(shapes) : i \in Origins(shapes[k].entities) }

\* the positions in a shape of the primitives that come from input entity i
PositionsOf(sh, i) == { j \in 1..Len(sh.entities) : Origin(sh.entities[j]) = i }

\* input entity i is in the shape once: as itself, or as the sub-primitives
\* of one decurving of it (as normalized, or flipped), side by side
OnceIn(sh, i) ==
    LET ps == PositionsOf(sh, i)
    IN  ps # {} =>
          /\ Cardinality(ps) = Pieces(data[i])
          /\ \A j \in ps : j + 1 \in ps \/ j = SetMax(ps)
          /\ data[i].type = "LWPOLYLINE" =>
                SubSeq(sh.entities, SetMin(ps), SetMax(ps))
                    \in {transofrmEntity(data[i]), transofrmEntity(swapEdges(data[i]))}

\* C13: at every step of findShapes each primitive that has edges is in
\* exactly one of the pool, the shape under construction and the emitted
\* shapes, a polyline being in a shape by the sub-primitives of one single
\* decurving; when findShapes returns, every such primitive is in exactly
\* one shape and none appears twice.
C13_PoolAndShapesPartition ==
    Filtered =>
        /\ \A i \in WithEdges :
              /\ Cardinality(PlacesOf(i)) = 1
              /\ OnceIn(shape, i)
              /\ \A k \in 1..Len(shapes) : OnceIn(shapes[k], i)
        /\ Len(pool) = Cardinality(Origins(pool))
        /\ Origins(pool) \cup Origins(shape.entities) \subseteq WithEdges
        /\ \A k \in 1..Len(shapes) : Origins(shapes[k].entities) \subseteq WithEdges
        /\ pc = "stitched" =>
              \A i \in WithEdges : \E k \in 1..Len(shapes) : PlacesOf(i) = {k}

\* findShapes is scanning the pool for a shape seeded by a polyline, after
\* it has emitted a shape, with a primitive still in the pool that the scan
\* has passed over
C13_Witness ==
    /\ pc = "scan"
    /\ Len(shapes) >= 1
    /\ Len(pool) >= 1
    /\ index > 1
    /\ Len(shape.entities) >= 2
    /\ \E i \in WithEdges : data[i].type = "LWPOLYLINE" /\ PlacesOf(i) = {0}

----------------------------------------------------------------------------
(* C14 *)

\* the primitives of the shape, read in order, run from its start to its
\* end, each beginning where the one before it ends
IsChain(sh) ==
    LET es == sh.entities
    IN  es # <<>> =>
          /\ es[1].edges[1] = sh.start
          /\ es[Len(es)].edges[2] = sh.end
          /\ \A j \in 1..(Len(es) - 1) : Near(es[j].edges[2], es[j + 1].edges[1])

\* C14: in every shape findShapes builds, the first primitive's edges[0] is
\* the shape's start, the last primitive's edges[1] is the shape's end, and
\* each primitive's edges[1] equals the next one's edges[0] within the
\* tolerance, whichever of the four cases attached it and also when it is a
\* sub-primitive of a polyline that was reversed.
C14_ShapeIsContinuousChain ==
    /\ IsChain(shape)
    /\ \A k \in 1..Len(shapes) : IsChain(shapes[k])

\* findShapes has returned a shape in which a line is followed by the lines
\* of a polyline that was reversed to fit
C14_Witness ==
    /\ pc = "stitched"
    /\ \E k \in 1..Len(shapes) :
          \E j \in 1..(Len(shapes[k].entities) - 2) :
              LET es == shapes[k].entities
              IN  /\ es[j].polyline = 0
                  /\ es[j + 1].polyline # 0 /\ es[j + 1].reverse
                  /\ es[j + 2].polyline = es[j + 1].polyline
                  /\ es[j + 1].edges # es[j + 2].edges

----------------------------------------------------------------------------
(* C15 *)

\* the step emits a shape
IsEmitStep == Len(shapes') = Len(shapes) + 1

\* an open shape is emitted only when nothing left in the pool touches its
\* start or its end
OpenMeansExhausted ==
    (IsEmitStep /\ ~shapes'[Len(shapes')].closed) =>
        /\ ~Near(shapes'[Len(shapes')].start, shapes'[Len(shapes')].end)
        /\ pool' = pool
        /\ \A j \in 1..Len(pool) : ~Touches(pool[j], shapes'[Len(shapes')])

\* a shape whose start equals its end attaches nothing
ClosedAttachesNothing == IsAttachStep => ~Near(shape.start, shape.end)

\* a shape under construction whose ends meet is emitted, closed, by the
\* next step, the pool as it is
ClosedIsEmitted ==
    (pc = "check" /\ Near(shape.start, shape.end)) =>
        /\ IsEmitStep
        /\ shapes'[Len(shapes')].closed
        /\ shapes'[Len(shapes')].entities = shape.entities
        /\ pool' = pool

\* an emitted shape is not touched again
EmittedIsFinal == \A k \in 1..Len(shapes) : Len(shapes') >= k /\ shapes'[k] = shapes[k]

\* C15: a shape stops growing only when its start equals its end or a full
\* scan of the pool finds no match: when a shape is emitted with closed =
\* false, no primitive left in the pool has an endpoint equal within
\* tolerance to its start or end; and a shape that has become closed
\* attaches nothing more, even if primitives in the pool touch its closing
\* point.
C15_StopsOnlyClosedOrExhausted ==
    [][OpenMeansExhausted /\ ClosedAttachesNothing /\ ClosedIsEmitted /\ EmittedIsFinal]_vars

\* findShapes has emitted a stitched closed shape while a primitive that
\* touches its closing point is still in the pool
C15_Witness ==
    /\ pc = "while"
    /\ shapes # <<>>
    /\ shapes[Len(shapes)].closed
    /\ Len(shapes[Len(shapes)].entities) > 1
    /\ pool # <<>>
    /\ \E j \in 1..Len(pool) : Touches(pool[j], shapes[Len(shapes)])

----------------------------------------------------------------------------
(* C16 *)

\* the step takes a seed from the pool
IsSeedStep == pc = "while" /\ pc' # "stitched"

\* the step adds primitives to the shape under construction
IsGrowStep == pc = "scan" /\ shape'.entities # shape.entities

\* a seed and an attachment take exactly one primitive from the pool, and
\* nothing else changes the pool
PoolShrinksByOne ==
    pc \in {"while", "scan", "check"} =>
        IF IsSeedStep \/ IsGrowStep
        THEN Len(pool') = Len(pool) - 1
        ELSE pool' = pool

\* the turn after a scan that matched nothing emits the shape
NoMatchEndsShape ==
    (pc = "check" /\ nextNotFound) => (IsEmitStep /\ shape' = NoShape /\ pc' = "while")

\* C16: findShapes terminates on every entity list: each seed and each
\* attachment removes exactly one primitive from the pool, a scan without a
\* match ends the current shape, and in the end the pool is empty and all
\* shapes are emitted.
C16_FindShapesTerminates ==
    /\ [][PoolShrinksByOne /\ NoMatchEndsShape]_vars
    /\ (pc = "filter") ~> (pc = "stitched" /\ pool = <<>> /\ shape = NoShape)

\* findShapes has returned two shapes, one stitched of two primitives and
\* one a scan found nothing for
C16_Witness ==
    /\ pc = "stitched"
    /\ Len(shapes) = 2
    /\ \E k \in 1..2 : Len(shapes[k].entities) = 2 /\ Len(shapes[3 - k].entities) = 1
    /\ Len(FilterEdges(data)) = 3

----------------------------------------------------------------------------
(* C17 *)

\* the Measurer pass is through and findMainShape has not yet moved a shape
MeasureDone == (pc = "measure" /\ mi > Len(shapes)) \/ pc \in {"select", "splice"}

\* the shapes (by number, 1-based) whose polygon was built and whose area
\* and perimeter were computed
Measured ==
    { k \in 1..Len(shapes) :
        /\ kernelPolygon[k].built
        /\ kernelPolygon[k].area
        /\ calcPerimeter(shapes[k]) # <<>> }

\* the shapes whose polygon was built and reported invalid
Invalid == { k \in 1..Len(shapes) : kernelPolygon[k].built /\ ~kernelPolygon[k].valid }

\* the error entries about shape k (1-based) with a text in texts
EntriesOf(k, texts) ==
    { j \in 1..Len(fileData.errors) :
        fileData.errors[j].shape = k - 1 /\ fileData.errors[j].text \in texts }

FailureTexts == {"has errors", "Can not compute area", "Can not compute perimeter"}

\* the survivors are the measured shapes, in their original order
SurvivorsAreMeasured ==
    /\ DOMAIN kernelPolygon = 1..Len(shapes)
    /\ { survivors[j].polygon[1] : j \in 1..Len(survivors) } = Measured
    /\ \A j \in 1..(Len(survivors) - 1) :
          survivors[j].polygon[1] < survivors[j + 1].polygon[1]
    /\ \A j \in 1..Len(survivors) :
          /\ survivors[j].entities = shapes[survivors[j].polygon[1]].entities
          /\ survivors[j].area # <<>> /\ survivors[j].perimeter # <<>>

\* C17 as claimed: after the Measurer pass the survivors are exactly the
\* shapes whose polygon, area and perimeter all succeeded, in their original
\* order; a shape built but reported invalid is kept and adds one 'is
\* invalid' entry; each dropped shape adds exactly one error entry; a failure
\* on one shape does not keep the following ones from being measured.
C17_InvalidKeptDroppedOneError ==
    MeasureDone =>
        /\ SurvivorsAreMeasured
        /\ \A k \in Invalid :
              /\ k \in Measured
              /\ Cardinality(EntriesOf(k, {"is invalid"})) = 1
        /\ \A k \in (1..Len(shapes)) \ Measured :
              Cardinality(EntriesOf(k, FailureTexts \cup {"is invalid"})) = 1

\* C17 as amended: the same, except that a shape built but reported invalid
\* adds one 'is invalid' entry and is kept only if its area and perimeter
\* are then computed, and a dropped shape adds exactly one entry for the
\* step that failed, after the 'is invalid' entry if it was reported invalid.
C17_InvalidNotedDroppedOneFailure ==
    MeasureDone =>
        /\ SurvivorsAreMeasured
        /\ \A k \in 1..Len(shapes) :
              /\ Cardinality(EntriesOf(k, {"is invalid"})) = (IF k \in Invalid THEN 1 ELSE 0)
              /\ Cardinality(EntriesOf(k, FailureTexts)) = (IF k \in Measured THEN 0 ELSE 1)
        /\ \A k \in Invalid \ Measured :
              SetMin(EntriesOf(k, {"is invalid"})) < SetMin(EntriesOf(k, FailureTexts))
        /\ \A j, l \in 1..Len(fileData.errors) :
              (j < l) => fileData.errors[j].shape <= fileData.errors[l].shape

\* the Measurer has dropped the first of three shapes, kept the second though
\* it is invalid, and kept the third
C17_Witness ==
    /\ MeasureDone
    /\ Len(shapes) = 3
    /\ 1 \notin Measured
    /\ 2 \in Invalid \cap Measured
    /\ 3 \in Measured \ Invalid
    /\ Len(survivors) = 2

----------------------------------------------------------------------------
(* C18 *)

\* the ends of the four sides of the rectangle [x0, x1] x [y0, y1]
SidesOf(x0, x1, y0, y1) ==
    { {Pt(x0, y0), Pt(x1, y0)}, {Pt(x1, y0), Pt(x1, y1)},
      {Pt(x1, y1), Pt(x0, y1)}, {Pt(x0, y1), Pt(x0, y0)} }

\* the shape is an axis-aligned rectangle: four lines that are the four
\* sides of the box of the coordinates they reach
IsRectangle(sh) ==
    LET xs == UNION { XsOf(sh.entities[i]) : i \in 1..Len(sh.entities) }
        ys == UNION { YsOf(sh.entities[i]) : i \in 1..Len(sh.entities) }
    IN  /\ Len(sh.entities) = 4
        /\ \A i \in 1..4 : sh.entities[i].type = "LINE"
        /\ Cardinality(xs) = 2
        /\ Cardinality(ys) = 2
        /\ { {sh.entities[i].edges[1], sh.entities[i].edges[2]} : i \in 1..4 }
              = SidesOf(SetMin(xs), SetMax(xs), SetMin(ys), SetMax(ys))

\* the corners of the box of the coordinates the shape reaches
CornersOf(sh) ==
    LET xs == UNION { XsOf(sh.entities[i]) : i \in 1..Len(sh.entities) }
        ys == UNION { YsOf(sh.entities[i]) : i \in 1..Len(sh.entities) }
    IN  [leftBottom |-> Pt(SetMin(xs), SetMin(ys)), rightTop |-> Pt(SetMax(xs), SetMax(ys))]

\* getFileData has returned the metrics of a main shape that is a rectangle
RectangleReturned ==
    /\ pc = "done"
    /\ ~Fatal
    /\ mainShape # <<>>
    /\ IsRectangle(mainShape[1])

\* C18: for a main shape that is the axis-aligned rectangle
\* [x0, x1] x [y0, y1], wherever it lies and whatever its size, findBounds
\* returns leftBottom = (x0, y0) and rightTop = (x1, y1), and getFileData
\* reports the width x1 - x0 and the height y1 - y0.
C18_RectangleBoundsAreItsCorners ==
    RectangleReturned =>
        /\ findBounds(mainShape[1]) = CornersOf(mainShape[1])
        /\ fileData.width = WidthOf(mainShape[1])
        /\ fileData.height = HeightOf(mainShape[1])

----------------------------------------------------------------------------
(* C19 *)

\* getFileData has returned without the fatal main-shape error
SuccessfulReturn == pc = "done" /\ ~Fatal

RECURSIVE Ascending(_)
\* the numbers of S in ascending order
Ascending(S) ==
    IF S = {} THEN <<>> ELSE <<SetMin(S)>> \o Ascending(S \ {SetMin(S)})

\* the surviving shapes by number: the main shape, then the others in the
\* order findShapes emitted them
MainThenOthers == <<MainHandle>> \o Ascending(Measured \ {MainHandle})

\* the output entry of shape k of findShapes' result
ListedAs(k) == [area |-> shapes[k].area[1], perimeter |-> shapes[k].perimeter[1]]

\* C19: on every return of getFileData without the fatal main-shape error,
\* the output shapes list holds each surviving shape once, the main shape
\* first and the others in their original relative order; the result's area
\* is the main shape's area, and its perimeter is the sum of the perimeters
\* of all the listed shapes, the main shape's included.
C19_MainFirstOthersInOrder ==
    SuccessfulReturn =>
        /\ mainShape # <<>>
        /\ MainHandle \in Measured
        /\ fileData.shapes = [j \in 1..Len(MainThenOthers) |-> ListedAs(MainThenOthers[j])]
        /\ fileData.area = shapes[MainHandle].area[1]
        /\ fileData.perimeter =
              TotalPerimeter([j \in 1..Len(MainThenOthers) |-> shapes[MainThenOthers[j]]],
                             Len(MainThenOthers))

\* three shapes are listed, and the main shape is the second that findShapes
\* emitted
C19_Witness ==
    /\ SuccessfulReturn
    /\ Len(fileData.shapes) = 3
    /\ MainHandle = 2

====
